---------------------------- MODULE Spec2Model ----------------------------
(***************************************************************************)
(* A model of the LearnCPP exercises: Calculator (src/src/calculator.cpp), *)
(* LogBuffer (src/src/LogBuffer.cpp, src/include/LogBuffer.h) and the      *)
(* TOPIC 9 entry point main (src/src/main.cpp).                            *)
(*                                                                         *)
(* int is modelled as a two's-complement type of IntBits bits, double as   *)
(* an IEEE 754 binary format of ExpBits exponent and ManBits fraction      *)
(* bits, std::vector<int> as a pointer to a heap block.                    *)
(***************************************************************************)
EXTENDS Integers, Sequences, FiniteSets, TLC

VARIABLES
    calcs,      \* Calculator objects: object -> whether constructed, and its members
    last,       \* the Calculator call that returned last (None before any call)
    seen,       \* an earlier Calculator call remembered for comparison (None if none)
    track,      \* whether earlier calls are remembered in seen
    out,        \* standard output: the lines written so far
    law,        \* the evaluation of Add(Add(a,b),c), Add(a,Add(b,c)), Add(b,a)
    bufs,       \* LogBuffer objects: object -> lifetime state and its data member
    heap,       \* the free store: address -> whether allocated, and the ints held
    players,    \* main: the vector of players
    pc,         \* main: the step to execute next
    steps,      \* main: the steps executed so far, in order
    it,         \* main: the iterator find_if returned (an index; past the end if none)
    lowCount,   \* main: the value count_if returned
    anyDead,    \* main: the value any_of returned
    allAlive,   \* main: the value all_of returned
    status      \* main: <<the exit status>> once main has returned, <<>> before

calcVars == <<calcs, last, seen, track>>
logVars == <<bufs, heap>>
mainVars == <<players, pc, steps, it, lowCount, anyDead, allAlive, status>>
vars == <<calcVars, out, law, logVars, mainVars>>

----------------------------------------------------------------------------
(* Bounds of the model *)

\* width of int in bits
IntBits == 3

RECURSIVE Pow2(_)
Pow2(n) == IF n = 0 THEN 1 ELSE 2 * Pow2(n - 1)

----------------------------------------------------------------------------
(* int *)

IntMin == -Pow2(IntBits - 1)
IntMax == Pow2(IntBits - 1) - 1
IntRange == IntMin..IntMax
InRange(n) == n >= IntMin /\ n <= IntMax

\* The value of a signed arithmetic expression whose mathematical value is n:
\* n when it is representable, and otherwise undefined behaviour (any int).
IntResults(n) == IF InRange(n) THEN {n} ELSE IntRange

None == [op |-> "none"]

----------------------------------------------------------------------------
(* double: sign, biased exponent and fraction fields. The exponent field of *)
(* all ones holds the infinities (fraction 0) and NaN; NaN payloads are not *)
(* distinguished, so NaN is the one pattern with fraction 1 and sign 0.     *)

\* exponent and fraction field widths of the floating-point format
ExpBits == 2
ManBits == 1

ExpMax == Pow2(ExpBits) - 1
ManLim == Pow2(ManBits)
Bias == Pow2(ExpBits - 1) - 1

NaN == [sign |-> 0, exp |-> ExpMax, man |-> 1]
PosZero == [sign |-> 0, exp |-> 0, man |-> 0]
Inf(s) == [sign |-> s, exp |-> ExpMax, man |-> 0]

Doubles ==
    {[sign |-> s, exp |-> e, man |-> m] :
        s \in {0, 1}, e \in 0..(ExpMax - 1), m \in 0..(ManLim - 1)}
    \cup {Inf(0), Inf(1), NaN}

IsNaN(x) == x.exp = ExpMax /\ x.man # 0
IsInf(x) == x.exp = ExpMax /\ x.man = 0
\* b == 0 of calculator.cpp:23: true of +0.0 and of -0.0, false of NaN
IsZero(x) == x.exp = 0 /\ x.man = 0
IsFinite(x) == x.exp < ExpMax

\* The magnitude of a finite double, as a multiple of the least subnormal.
Mag(x) == IF x.exp = 0 THEN x.man ELSE (ManLim + x.man) * Pow2(x.exp - 1)

\* Magnitudes on the rounding grid: the finite ones, and the power of two above
\* the greatest finite one (a result rounded to it overflows to infinity).
OverMag == ManLim * Pow2(ExpMax - 1)
Grid == {Mag(x) : x \in {y \in Doubles : IsFinite(y)}} \cup {OverMag}

\* Whether the fraction field of the pattern with magnitude m is even.
EvenMag(m) ==
    IF m >= OverMag THEN TRUE
    ELSE IF m < ManLim THEN m % 2 = 0
    ELSE LET x == CHOOSE y \in Doubles : IsFinite(y) /\ y.sign = 0 /\ Mag(y) = m
         IN x.man % 2 = 0

\* The double of sign s and magnitude m (m on the grid).
FromMag(s, m) ==
    IF m >= OverMag THEN Inf(s)
    ELSE CHOOSE y \in Doubles : IsFinite(y) /\ y.sign = s /\ Mag(y) = m

\* n/d (n >= 0, d > 0, in units of the least subnormal) rounded to the nearest
\* grid magnitude, ties to the even fraction; beyond the grid, OverMag.
RoundNearestEven(n, d) ==
    IF n >= OverMag * d THEN OverMag
    ELSE LET lo == CHOOSE m \in Grid :
                       m * d <= n /\ \A k \in Grid : k * d <= n => k <= m
             hi == CHOOSE m \in Grid :
                       m * d >= n /\ \A k \in Grid : k * d >= n => k >= m
         IN IF 2 * n < (lo + hi) * d THEN lo
            ELSE IF 2 * n > (lo + hi) * d THEN hi
            ELSE IF EvenMag(lo) THEN lo ELSE hi

\* IEEE 754 division a / b in round-to-nearest-even (calculator.cpp:27).
FDiv(a, b) ==
    LET s == (a.sign + b.sign) % 2 IN
    IF IsNaN(a) \/ IsNaN(b) THEN NaN
    ELSE IF IsInf(a) THEN (IF IsInf(b) THEN NaN ELSE Inf(s))
    ELSE IF IsInf(b) THEN [sign |-> s, exp |-> 0, man |-> 0]
    ELSE IF IsZero(b) THEN (IF IsZero(a) THEN NaN ELSE Inf(s))
    ELSE IF IsZero(a) THEN [sign |-> s, exp |-> 0, man |-> 0]
    ELSE FromMag(s, RoundNearestEven(Mag(a) * Pow2(Bias + ManBits - 1), Mag(b)))

----------------------------------------------------------------------------
(* Calculator (src/src/calculator.cpp) *)

Calcs == {"c1", "c2"}

\* Add written with the wrong operator.
AddSubtracts(a, b) == IntResults(a - b)

\* Sub with its operands reversed.
SubReversed(a, b) == IntResults(b - a)

\* Mul written with the wrong operator.
MulAdds(a, b) == IntResults(a + b)

\* Div with the zero test on the dividend instead of the divisor.
DivGuardsDividend(a, b) ==
    IF IsZero(a)
    THEN [r |-> PosZero, divided |-> FALSE]
    ELSE [r |-> FDiv(a, b), divided |-> TRUE]

\* Div without its zero test.
DivUnguarded(a, b) == [r |-> FDiv(a, b), divided |-> TRUE]

\* A Calculator that keeps its last result in a member.
MembersCached(m, op, r) == <<r>>

\* int Calculator::Add(int a, int b) { return a + b; }
AddResults(a, b) == IntResults(a + b)

\* int Calculator::Sub(int a, int b) { return a - b; }
SubResults(a, b) == IntResults(a - b)

\* int Calculator::Mul(int a, int b) { return a * b; }
MulResults(a, b) == IntResults(a * b)

\* double Calculator::Div(double a, double b): the value returned, and whether
\* the division a / b of line 27 was evaluated.
Div(a, b) ==
    IF IsZero(b)
    THEN [r |-> PosZero, divided |-> FALSE]
    ELSE [r |-> FDiv(a, b), divided |-> TRUE]

\* Calculator::Calculator() = default: the members of a new object. The member
\* functions name no member, so the object's state is modelled as empty.
NewMembers == <<>>

\* An object not constructed yet.
Unborn == [live |-> FALSE, members |-> NewMembers]

\* The members of an object after one of its member functions returned r:
\* none of the four functions assigns a member.
MembersAfter(m, op, r) == m

\* The lines a call writes to standard output: none.
CallOutput(op, r) == <<>>

\* Arguments the calls are made with. When earlier calls are remembered the
\* arguments are drawn from the boundary values of each type.
One == [sign |-> 0, exp |-> Bias, man |-> 0]
MaxDouble == [sign |-> 0, exp |-> ExpMax - 1, man |-> ManLim - 1]
IntArgs == IF track THEN {IntMin, -1, 0, 1, IntMax} ELSE IntRange
DoubleArgs ==
    IF track
    THEN {PosZero, [PosZero EXCEPT !.sign = 1], One, MaxDouble, Inf(0), NaN}
    ELSE Doubles

Construct(o) ==
    /\ ~calcs[o].live
    /\ calcs' = [calcs EXCEPT ![o] = [live |-> TRUE, members |-> NewMembers]]
    /\ UNCHANGED <<last, seen, track, out, law, logVars, mainVars>>

\* Object o returns r from op(a, b).
CallReturns(o, op, a, b, r, divided) ==
    LET call == [op |-> op, obj |-> o, a |-> a, b |-> b, r |-> r,
                 divided |-> divided, status |-> "returned"]
    IN /\ last' = call
       /\ calcs' = [calcs EXCEPT ![o].members = MembersAfter(@, op, r)]
       /\ out' = out \o CallOutput(op, r)
       /\ seen' \in (IF track THEN {seen, call} ELSE {seen})
       /\ UNCHANGED <<track, law, logVars, mainVars>>

CallAdd(o) ==
    /\ calcs[o].live
    /\ last = None
    /\ \E a \in IntArgs, b \in IntArgs :
           \E r \in AddResults(a, b) : CallReturns(o, "Add", a, b, r, FALSE)

CallSub(o) ==
    /\ calcs[o].live
    /\ last = None
    /\ \E a \in IntArgs, b \in IntArgs :
           \E r \in SubResults(a, b) : CallReturns(o, "Sub", a, b, r, FALSE)

CallMul(o) ==
    /\ calcs[o].live
    /\ last = None
    /\ \E a \in IntArgs, b \in IntArgs :
           \E r \in MulResults(a, b) : CallReturns(o, "Mul", a, b, r, FALSE)

CallDiv(o) ==
    /\ calcs[o].live
    /\ last = None
    /\ \E a \in DoubleArgs, b \in DoubleArgs :
           CallReturns(o, "Div", a, b, Div(a, b).r, Div(a, b).divided)

\* The caller has used the value returned (main.cpp:478-482 prints it) and the
\* temporary is gone.
Discard ==
    /\ last # None
    /\ last' = None
    /\ UNCHANGED <<calcs, seen, track, out, law, logVars, mainVars>>

\* The other parts of the model, idle.
LawIdle == law = [pc |-> "idle"]
LogIdle == bufs = <<>> /\ heap = <<>>
MainIdle ==
    /\ players = <<>> /\ pc = "idle" /\ steps = <<>> /\ it = 0
    /\ lowCount = 0 /\ anyDead = FALSE /\ allAlive = FALSE /\ status = <<>>

CalcInit ==
    /\ calcs = [o \in Calcs |-> Unborn]
    /\ last = None
    /\ seen = None
    /\ track = FALSE
    /\ out = <<>>
    /\ LawIdle /\ LogIdle /\ MainIdle

PureInit ==
    /\ calcs = [o \in Calcs |-> Unborn]
    /\ last = None
    /\ seen = None
    /\ track = TRUE
    /\ out = <<>>
    /\ LawIdle /\ LogIdle /\ MainIdle

CalcNext ==
    \/ \E o \in Calcs :
           \/ Construct(o)
           \/ CallAdd(o)
           \/ CallSub(o)
           \/ CallMul(o)
           \/ CallDiv(o)
    \/ Discard

\* Calculator objects called with every pair of arguments.
CalcSpec == CalcInit /\ [][CalcNext]_vars

\* The same, with an earlier call remembered next to the last one.
PureSpec == PureInit /\ [][CalcNext]_vars

----------------------------------------------------------------------------
(* The sums Add(a,b), Add(b,a), Add(Add(a,b),c) and Add(a,Add(b,c)) of three *)
(* ints, each evaluated by one call of Calculator::Add. A call whose sum is  *)
(* not representable has undefined behaviour: it yields any int, and the     *)
(* evaluation is followed no further.                                        *)

LawInit ==
    /\ calcs = [o \in Calcs |-> [live |-> TRUE, members |-> NewMembers]]
    /\ last = None
    /\ seen = None
    /\ track = FALSE
    /\ out = <<>>
    /\ LogIdle /\ MainIdle
    /\ \E a \in IntRange, b \in IntRange, c \in IntRange :
           law = [pc |-> "ab", a |-> a, b |-> b, c |-> c, ab |-> "unset",
                  ba |-> "unset", left |-> "unset", bc |-> "unset",
                  right |-> "unset"]

\* Where the evaluation goes after Add(x, y).
After(x, y, next) == IF InRange(x + y) THEN next ELSE "undefined"

\* ab = Add(a, b)
EvalAB ==
    /\ law.pc = "ab"
    /\ \E r \in AddResults(law.a, law.b) :
           law' = [law EXCEPT !.ab = r, !.pc = After(law.a, law.b, "ba")]
    /\ UNCHANGED <<calcVars, out, logVars, mainVars>>

\* ba = Add(b, a)
EvalBA ==
    /\ law.pc = "ba"
    /\ \E r \in AddResults(law.b, law.a) :
           law' = [law EXCEPT !.ba = r, !.pc = After(law.b, law.a, "left")]
    /\ UNCHANGED <<calcVars, out, logVars, mainVars>>

\* left = Add(ab, c)
EvalLeft ==
    /\ law.pc = "left"
    /\ \E r \in AddResults(law.ab, law.c) :
           law' = [law EXCEPT !.left = r, !.pc = After(law.ab, law.c, "bc")]
    /\ UNCHANGED <<calcVars, out, logVars, mainVars>>

\* bc = Add(b, c)
EvalBC ==
    /\ law.pc = "bc"
    /\ \E r \in AddResults(law.b, law.c) :
           law' = [law EXCEPT !.bc = r, !.pc = After(law.b, law.c, "right")]
    /\ UNCHANGED <<calcVars, out, logVars, mainVars>>

\* right = Add(a, bc)
EvalRight ==
    /\ law.pc = "right"
    /\ \E r \in AddResults(law.a, law.bc) :
           law' = [law EXCEPT !.right = r, !.pc = After(law.a, law.bc, "done")]
    /\ UNCHANGED <<calcVars, out, logVars, mainVars>>

LawNext == EvalAB \/ EvalBA \/ EvalLeft \/ EvalBC \/ EvalRight

LawSpec == LawInit /\ [][LawNext]_vars

----------------------------------------------------------------------------
(* Claims about Calculator *)

Returned(op) == last.op = op /\ last.status = "returned"

\* C1 as stated: for every pair of ints a and b, also those whose mathematical
\* sum lies outside the int range, Add(a, b) returns a + b.
C1_AddEveryPair == Returned("Add") => last.r = last.a + last.b

\* C1, amended: for all ints a and b whose sum is representable as an int,
\* Add(a, b) returns a + b.
C1_AddRepresentable ==
    (Returned("Add") /\ InRange(last.a + last.b)) => last.r = last.a + last.b

\* Add(INT_MAX, INT_MIN) has returned -1.
C1_Witness ==
    Returned("Add") /\ last.a = IntMax /\ last.b = IntMin /\ last.r = -1

\* C2: Add is commutative and associative within range: when every
\* intermediate sum is representable, Add(a, b) = Add(b, a) and
\* Add(Add(a, b), c) = Add(a, Add(b, c)).
C2_AddCommutesAssociates ==
    /\ (law.pc \in {"left", "bc", "right", "done"}
            /\ InRange(law.a + law.b))
        => law.ab = law.ba
    /\ (law.pc = "done" /\ InRange(law.a + law.b) /\ InRange(law.b + law.c)
            /\ InRange(law.a + law.b + law.c))
        => law.left = law.right

\* Both groupings of INT_MAX + INT_MIN + 1 were evaluated, to 0.
C2_Witness ==
    /\ law.pc = "done"
    /\ law.a = IntMax /\ law.b = IntMin /\ law.c = 1
    /\ law.ab = -1 /\ law.bc = IntMin + 1
    /\ law.left = 0 /\ law.right = 0

\* C3 as stated: for all ints a and b, Sub(a, b) returns a - b.
C3_SubEveryPair == Returned("Sub") => last.r = last.a - last.b

\* C3, amended: for all ints a and b whose difference is representable as an
\* int, Sub(a, b) returns a - b, the first argument minus the second.
C3_SubRepresentable ==
    (Returned("Sub") /\ InRange(last.a - last.b)) => last.r = last.a - last.b

\* Sub(-1, INT_MAX) has returned INT_MIN (the reverse, INT_MAX - -1, overflows).
C3_Witness ==
    Returned("Sub") /\ last.a = -1 /\ last.b = IntMax /\ last.r = IntMin

\* C4 as stated: for all ints a and b, Mul(a, b) returns a * b.
C4_MulEveryPair == Returned("Mul") => last.r = last.a * last.b

\* C4, amended: for all ints a and b whose product is representable as an int,
\* Mul(a, b) returns a * b.
C4_MulRepresentable ==
    (Returned("Mul") /\ InRange(last.a * last.b)) => last.r = last.a * last.b

\* Mul(-1, INT_MAX) has returned -INT_MAX.
C4_Witness ==
    Returned("Mul") /\ last.a = -1 /\ last.b = IntMax /\ last.r = -IntMax

\* The distance of n from m * d.
Dist(n, m, d) == IF n >= m * d THEN n - m * d ELSE m * d - n

\* r is the quotient a / b of finite non-zero a and b: it has the sign of the
\* quotient and no magnitude of the format is nearer to the real quotient
\* (infinity standing for the power of two above the greatest finite double).
IsQuotient(r, a, b) ==
    LET n == Mag(a) * Pow2(Bias + ManBits - 1)
        d == Mag(b)
        m == IF IsInf(r) THEN OverMag ELSE Mag(r)
    IN /\ ~IsNaN(r)
       /\ r.sign = (a.sign + b.sign) % 2
       /\ IF n >= OverMag * d THEN IsInf(r)
          ELSE \A g \in Grid : Dist(n, m, d) <= Dist(n, g, d)

\* C5: for all a and all b != 0, Div(a, b) returns a / b: the division is
\* evaluated and its value returned; for finite non-zero operands that value
\* is the correctly rounded real quotient.
C5_DivQuotient ==
    (Returned("Div") /\ ~IsZero(last.b)) =>
        /\ last.divided
        /\ last.r = FDiv(last.a, last.b)
        /\ (IsFinite(last.a) /\ IsFinite(last.b) /\ ~IsZero(last.a))
             => IsQuotient(last.r, last.a, last.b)

\* Div(1.0, 2.0) has returned 0.5.
C5_Witness ==
    /\ Returned("Div")
    /\ last.a = One
    /\ last.b = [One EXCEPT !.exp = Bias + 1]
    /\ IsFinite(last.r) /\ last.r.sign = 0 /\ 2 * Mag(last.r) = Mag(One)

\* C6: for every dividend a, Div(a, 0) returns 0 as an ordinary value: the
\* division is not evaluated and the call returns normally.
C6_DivByZero ==
    (Returned("Div") /\ IsZero(last.b)) =>
        last.r = PosZero /\ ~last.divided /\ last.status = "returned"

\* Div of a non-zero finite dividend by zero has returned 0 (main.cpp:481).
C6_Witness ==
    /\ Returned("Div") /\ IsZero(last.b)
    /\ IsFinite(last.a) /\ ~IsZero(last.a)
    /\ last.r = PosZero

\* Whether op(a, b) has defined behaviour: the int operations do when their
\* mathematical result is representable, Div always.
Defined(op, a, b) ==
    CASE op = "Add" -> InRange(a + b)
      [] op = "Sub" -> InRange(a - b)
      [] op = "Mul" -> InRange(a * b)
      [] OTHER -> TRUE

SameCall(x, y) ==
    /\ x # None /\ y # None
    /\ x.op = y.op /\ x.a = y.a /\ x.b = y.b

\* No call has changed any observable state: every object holds the members it
\* was constructed with and nothing was written to standard output.
NoEffect ==
    /\ \A o \in Calcs : calcs[o].members = NewMembers
    /\ out = <<>>

\* C7 as stated: a call returns what any earlier call with the same arguments
\* returned, on whichever object, and no call changes observable state.
C7_PureEveryCall ==
    /\ SameCall(seen, last) => seen.r = last.r
    /\ NoEffect

\* C7, amended: the same, for calls whose behaviour is defined (no signed
\* overflow in Add, Sub or Mul).
C7_PureDefinedCalls ==
    /\ (SameCall(seen, last) /\ Defined(last.op, last.a, last.b))
        => seen.r = last.r
    /\ NoEffect

\* The same Mul was called on two different objects and returned the same.
C7_Witness ==
    /\ SameCall(seen, last)
    /\ seen.obj # last.obj
    /\ last.op = "Mul" /\ last.a = -1 /\ last.b = IntMax /\ last.r = -IntMax

----------------------------------------------------------------------------
(* LogBuffer (src/src/LogBuffer.cpp, src/include/LogBuffer.h): one public   *)
(* member, std::vector<int> data. A vector is modelled as the address of   *)
(* the block that holds its elements (Null when it owns none); the blocks  *)
(* live in heap.                                                           *)

\* the greatest number of elements a vector is given
MaxLen == 2

Objs == {"a", "b", "c"}
Elems == {1, 2}
Addrs == 1..Cardinality(Objs)
Null == 0
Free == [used |-> FALSE, elems |-> <<>>]

\* The block a new allocation returns.
Alloc(h) == CHOOSE a \in Addrs : ~h[a].used /\ \A b \in Addrs : ~h[b].used => a <= b

\* The elements of the vector whose block is p.
VecElems(h, p) == IF p = Null THEN <<>> ELSE h[p].elems

\* A copy that shares the source's block instead of duplicating it.
VecCopyShallow(h, p) == [heap |-> h, ptr |-> p]

\* vector(const vector&): a block of its own holding the source's elements.
VecCopy(h, p) ==
    IF VecElems(h, p) = <<>> THEN [heap |-> h, ptr |-> Null]
    ELSE LET a == Alloc(h)
         IN [heap |-> [h EXCEPT ![a] = [used |-> TRUE, elems |-> h[p].elems]],
             ptr |-> a]

\* A move that leaves the source pointing at the block it gave away.
VecMoveKeepsSource(h, p) == [ptr |-> p, src |-> p]

\* vector(vector&&): the destination takes the source's block and the source
\* is left empty.
VecMove(h, p) == [ptr |-> p, src |-> Null]

\* vector::operator=(initializer_list) and push_back write the elements q:
\* into the vector's block when it has one, else into a new block.
VecStore(h, p, q) ==
    IF p # Null THEN [heap |-> [h EXCEPT ![p].elems = q], ptr |-> p]
    ELSE IF q = <<>> THEN [heap |-> h, ptr |-> Null]
    ELSE LET a == Alloc(h)
         IN [heap |-> [h EXCEPT ![a] = [used |-> TRUE, elems |-> q]], ptr |-> a]

\* ~vector(): the block is returned to the free store.
VecFree(h, p) == IF p = Null THEN h ELSE [h EXCEPT ![p] = Free]

Live(o) == bufs[o].state = "live"

\* o.data as a sequence.
Data(o) == VecElems(heap, bufs[o].data)

\* The objects are automatic variables declared in the order of Order: one is
\* constructed after those declared before it, and destroyed before them.
Order == <<"a", "b", "c">>
Pos(o) == CHOOSE i \in 1..Len(Order) : Order[i] = o
Declared(o) == \A x \in Objs : Pos(x) < Pos(o) => bufs[x].state # "unborn"
Innermost(o) == \A x \in Objs : Pos(x) > Pos(o) => ~Live(x)

\* The initializer lists assigned to data.
Lists == {<<>>, <<1, 2>>}

\* LogBuffer::LogBuffer()
DefaultConstruct(o) ==
    /\ bufs[o].state = "unborn" /\ Declared(o)
    /\ bufs' = [bufs EXCEPT ![o] = [state |-> "live", data |-> Null]]
    /\ out' = Append(out, "LogBuffer: Default Constructor")
    /\ UNCHANGED <<heap, calcVars, law, mainVars>>

\* LogBuffer::LogBuffer(const LogBuffer& other) : data(other.data)
CopyConstruct(o, other) ==
    /\ bufs[o].state = "unborn" /\ Declared(o)
    /\ Live(other)
    /\ LET c == VecCopy(heap, bufs[other].data)
       IN /\ heap' = c.heap
          /\ bufs' = [bufs EXCEPT ![o] = [state |-> "live", data |-> c.ptr]]
    /\ out' = Append(out, "LogBuffer: Copy Constructor")
    /\ UNCHANGED <<calcVars, law, mainVars>>

\* LogBuffer::LogBuffer(LogBuffer&& other) noexcept : data(std::move(other.data))
MoveConstruct(o, other) ==
    /\ bufs[o].state = "unborn" /\ Declared(o)
    /\ Live(other)
    /\ LET m == VecMove(heap, bufs[other].data)
       IN bufs' = [bufs EXCEPT ![o] = [state |-> "live", data |-> m.ptr],
                               ![other].data = m.src]
    /\ out' = Append(out, "LogBuffer: Move Constructor")
    /\ UNCHANGED <<heap, calcVars, law, mainVars>>

\* o.data = {...} (main.cpp:292)
Assign(o, q) ==
    /\ Live(o)
    /\ LET w == VecStore(heap, bufs[o].data, q)
       IN /\ heap' = w.heap
          /\ bufs' = [bufs EXCEPT ![o].data = w.ptr]
    /\ UNCHANGED <<out, calcVars, law, mainVars>>

\* o.data.push_back(v)
PushBack(o, v) ==
    /\ Live(o)
    /\ Len(Data(o)) < MaxLen
    /\ LET w == VecStore(heap, bufs[o].data, Append(Data(o), v))
       IN /\ heap' = w.heap
          /\ bufs' = [bufs EXCEPT ![o].data = w.ptr]
    /\ UNCHANGED <<out, calcVars, law, mainVars>>

\* The implicit destructor, at the end of o's scope.
Destroy(o) ==
    /\ Live(o) /\ Innermost(o)
    /\ heap' = VecFree(heap, bufs[o].data)
    /\ bufs' = [bufs EXCEPT ![o] = [state |-> "dead", data |-> Null]]
    /\ UNCHANGED <<out, calcVars, law, mainVars>>

LogInit ==
    /\ bufs = [o \in Objs |-> [state |-> "unborn", data |-> Null]]
    /\ heap = [a \in Addrs |-> Free]
    /\ out = <<>>
    /\ calcs = [o \in Calcs |-> Unborn]
    /\ last = None /\ seen = None /\ track = FALSE
    /\ LawIdle /\ MainIdle

LogNext ==
    \E o \in Objs :
        \/ DefaultConstruct(o)
        \/ \E other \in Objs \ {o} : CopyConstruct(o, other)
        \/ \E other \in Objs \ {o} : MoveConstruct(o, other)
        \/ \E q \in Lists : Assign(o, q)
        \/ \E v \in Elems : PushBack(o, v)
        \/ Destroy(o)

LogSpec == LogInit /\ [][LogNext]_vars

----------------------------------------------------------------------------
(* Claims about LogBuffer *)

\* The step changes object x: its lifetime state, its vector or its elements.
Changes(x) == bufs'[x] # bufs[x] \/ Data(x)' # Data(x)

\* A step that changes one object, other than the move construction of that
\* object from y, leaves the data of every other object y unchanged.
Independent ==
    \A x \in Objs : \A y \in Objs \ {x} :
        (Live(y) /\ Live(y)' /\ Changes(x) /\ ~MoveConstruct(x, y))
            => Data(y)' = Data(y)

\* The copy construction of d from s gives d the elements s has and leaves
\* those of s as they are.
CopyEqual ==
    \A d \in Objs : \A s \in Objs \ {d} :
        CopyConstruct(d, s) => (Data(d)' = Data(s) /\ Data(s)' = Data(s))

\* C8: copy construction yields data equal in contents to the source's at the
\* time of the copy, leaves the source's data unchanged, and the two are
\* independent: no later modification of one object's data changes the
\* other's (stated for every two objects, a copy and its source among them).
C8_CopyEqualIndependent == [][CopyEqual /\ Independent]_vars

\* b was copy-constructed from a, and the two were modified apart since.
C8_Witness ==
    /\ out = <<"LogBuffer: Default Constructor", "LogBuffer: Copy Constructor">>
    /\ Live("a") /\ Live("b")
    /\ Data("a") = <<1, 2>> /\ Data("b") = <<2, 1>>

\* Every live object's vector is empty or owns an allocated block that no other
\* live object holds.
Valid(o) ==
    Live(o) =>
        \/ bufs[o].data = Null
        \/ /\ heap[bufs[o].data].used
           /\ \A x \in Objs \ {o} : Live(x) => bufs[x].data # bufs[o].data

\* The move construction of d from s hands the block of s, with the elements
\* it holds, to d, and leaves s alive, valid and empty.
MoveTransfers ==
    \A d \in Objs : \A s \in Objs \ {d} :
        MoveConstruct(d, s) =>
            /\ Data(d)' = Data(s)
            /\ bufs'[d].data = bufs[s].data /\ heap' = heap
            /\ Live(s)' /\ Data(s)' = <<>>
            /\ Valid(s)' /\ Valid(d)'

\* C9: move construction transfers the original contents to the destination
\* and leaves the source valid and empty; reading, assigning or appending to
\* the source afterwards does not affect the destination.
C9_MoveTransfersSourceEmpty ==
    [][MoveTransfers /\ Independent /\ (\A o \in Objs : Valid(o)')]_vars

\* b was move-constructed from a, and a was assigned and appended to since.
C9_Witness ==
    /\ out = <<"LogBuffer: Default Constructor", "LogBuffer: Move Constructor">>
    /\ Live("a") /\ Live("b")
    /\ Data("b") = <<1, 2>> /\ Data("a") = <<2, 1>>

----------------------------------------------------------------------------
(* main (src/src/main.cpp:73-133). The vector is a literal in the source;  *)
(* the steps are run on every vector of at most MaxPlayers players, the    *)
(* literal among them.                                                     *)

\* the greatest number of players in the vector
MaxPlayers == 4

Names == <<"Alice", "Bob", "Eve", "Mallory">>
NameOf(i) == IF i <= Len(Names) THEN Names[i] ELSE "Player"
HpValues == {-5, 0, 40, 70, 100}

\* std::vector<Player> players = { {1,"Alice",100}, {2,"Bob",40}, {3,"Eve",0},
\* {4,"Mallory",70} }
Literal ==
    << [id |-> 1, name |-> "Alice", hp |-> 100],
       [id |-> 2, name |-> "Bob", hp |-> 40],
       [id |-> 3, name |-> "Eve", hp |-> 0],
       [id |-> 4, name |-> "Mallory", hp |-> 70] >>

Vectors ==
    UNION {{[i \in 1..n |-> [id |-> i, name |-> NameOf(i), hp |-> h[i]]] :
               h \in [1..n -> HpValues]} : n \in 0..MaxPlayers}

\* An all_of lambda that counts a player with no HP left as alive.
AliveOrZero(p) == p.hp >= 0

\* A sort lambda that compares the wrong way round (ascending).
HpLess(a, b) == a.hp < b.hp

\* The lambdas.
LowHp(p) == p.hp < 50
Dead(p) == p.hp <= 0
Alive(p) == p.hp > 0
HpGreater(a, b) == a.hp > b.hp

\* std::find_if(begin, end, LowHp): the first position from i on whose player
\* has low HP, or the position past the end.
RECURSIVE FindLow(_, _)
FindLow(v, i) ==
    IF i > Len(v) THEN Len(v) + 1
    ELSE IF LowHp(v[i]) THEN i
    ELSE FindLow(v, i + 1)

\* std::count_if(begin, end, LowHp)
RECURSIVE CountLow(_)
CountLow(v) ==
    IF v = <<>> THEN 0
    ELSE (IF LowHp(Head(v)) THEN 1 ELSE 0) + CountLow(Tail(v))

\* std::any_of(begin, end, Dead)
AnyOfDead(v) == \E i \in 1..Len(v) : Dead(v[i])

\* std::all_of(begin, end, Alive)
AllOfAlive(v) == \A i \in 1..Len(v) : Alive(v[i])

\* std::sort(begin, end, HpGreater): the rearrangements of v in which no player
\* comes after one it must precede. The order of players the comparison does
\* not tell apart is unspecified. Arrange(v, S) is the set of such
\* arrangements of the players at the positions S, First(v, S) the positions
\* whose player may come first.
First(v, S) == {i \in S : \A j \in S : ~HpGreater(v[j], v[i])}

RECURSIVE Arrange(_, _)
Arrange(v, S) ==
    IF S = {} THEN {<<>>}
    ELSE UNION {{<<v[i]>> \o rest : rest \in Arrange(v, S \ {i})} :
                    i \in First(v, S)}

Sorted(v) == Arrange(v, 1..Len(v))

\* std::remove_if(begin, end, Dead): the players kept, in their order, moved
\* to the front; ret is the position after them. What the positions from ret
\* on hold is unspecified; main erases them in the same statement.
RECURSIVE KeepAlive(_)
KeepAlive(v) ==
    IF v = <<>> THEN <<>>
    ELSE IF Dead(Head(v)) THEN KeepAlive(Tail(v))
    ELSE <<Head(v)>> \o KeepAlive(Tail(v))

RemoveIfDead(v) ==
    LET kept == KeepAlive(v)
    IN [vec |-> kept \o SubSeq(v, Len(kept) + 1, Len(v)), ret |-> Len(kept) + 1]

\* remove_if without the erase: the vector keeps its length.
EraseNothing(v, first) == v

\* players.erase(first, players.end())
Erase(v, first) == SubSeq(v, 1, first - 1)

\* for (const auto& p : players) std::cout << p.name << " (" << p.hp << ")\n"
Listing(v) == [i \in 1..Len(v) |-> <<v[i].name, " (", v[i].hp, ")">>]

\* A main that goes from all_of straight to erase-remove.
FollowingSkipsSort(step) ==
    CASE step = "find_if" -> "count_if"
      [] step = "count_if" -> "any_of"
      [] step = "any_of" -> "all_of"
      [] step = "all_of" -> "erase_remove"
      [] step = "sort" -> "erase_remove"
      [] step = "erase_remove" -> "return"

\* The statement executed after each step.
Following(step) ==
    CASE step = "find_if" -> "count_if"
      [] step = "count_if" -> "any_of"
      [] step = "any_of" -> "all_of"
      [] step = "all_of" -> "sort"
      [] step = "sort" -> "erase_remove"
      [] step = "erase_remove" -> "return"

Advance(step) ==
    /\ pc = step
    /\ pc' = Following(step)
    /\ steps' = Append(steps, step)
    /\ UNCHANGED <<status, calcVars, law, logVars>>

\* 1) find_if
StepFindIf ==
    /\ Advance("find_if")
    /\ it' = FindLow(players, 1)
    /\ out' = Append(out, IF it' # Len(players) + 1
                          THEN <<"Found low HP player: ", players[it'].name>>
                          ELSE <<"No low HP player">>)
    /\ UNCHANGED <<players, lowCount, anyDead, allAlive>>

\* 2) count_if
StepCountIf ==
    /\ Advance("count_if")
    /\ lowCount' = CountLow(players)
    /\ out' = Append(out, <<"Low HP count: ", lowCount'>>)
    /\ UNCHANGED <<players, it, anyDead, allAlive>>

\* 3) any_of
StepAnyOf ==
    /\ Advance("any_of")
    /\ anyDead' = AnyOfDead(players)
    /\ out' = IF anyDead' THEN Append(out, <<"At least one player is dead">>)
              ELSE out
    /\ UNCHANGED <<players, it, lowCount, allAlive>>

\* 4) all_of
StepAllOf ==
    /\ Advance("all_of")
    /\ allAlive' = AllOfAlive(players)
    /\ out' = IF allAlive' THEN Append(out, <<"All players are alive">>)
              ELSE out
    /\ UNCHANGED <<players, it, lowCount, anyDead>>

\* 5) sort (descending HP). The iterator it is not used again.
StepSort ==
    /\ Advance("sort")
    /\ players' \in Sorted(players)
    /\ out' = Append(out, <<"Sorted players:">>) \o Listing(players')
    /\ UNCHANGED <<it, lowCount, anyDead, allAlive>>

\* 6) erase-remove
StepEraseRemove ==
    /\ Advance("erase_remove")
    /\ LET r == RemoveIfDead(players) IN players' = Erase(r.vec, r.ret)
    /\ out' = Append(out, <<"After removing dead players:">>) \o Listing(players')
    /\ UNCHANGED <<it, lowCount, anyDead, allAlive>>

\* return 0;
ReturnValue == 0

Return ==
    /\ pc = "return"
    /\ pc' = "done"
    /\ status' = <<ReturnValue>>
    /\ UNCHANGED <<players, steps, it, lowCount, anyDead, allAlive, out,
                   calcVars, law, logVars>>

MainInit ==
    /\ players \in Vectors
    /\ pc = "find_if"
    /\ steps = <<>>
    /\ it = 0 /\ lowCount = 0 /\ anyDead = FALSE /\ allAlive = FALSE
    /\ status = <<>>
    /\ out = <<>>
    /\ calcs = [o \in Calcs |-> Unborn]
    /\ last = None /\ seen = None /\ track = FALSE
    /\ LawIdle /\ LogIdle

MainNext ==
    \/ StepFindIf
    \/ StepCountIf
    \/ StepAnyOf
    \/ StepAllOf
    \/ StepSort
    \/ StepEraseRemove
    \/ Return

MainSpec == MainInit /\ [][MainNext]_vars

\* main is one thread of straight-line code: a statement that can execute does.
MainFairSpec == MainSpec /\ WF_vars(MainNext)

----------------------------------------------------------------------------
(* Claims about main *)

SixSteps == <<"find_if", "count_if", "any_of", "all_of", "sort", "erase_remove">>

\* C10: main runs to completion and exits with status 0: it executes its six
\* steps (find_if, count_if, any_of, all_of, sort, erase-remove) once each in
\* that order and always terminates by returning 0.
C10_MainRunsToCompletion ==
    /\ [](steps = SubSeq(SixSteps, 1, Len(steps)))
    /\ [](pc = "done" => (steps = SixSteps /\ status = <<0>>))
    /\ [](status \in {<<>>, <<0>>})
    /\ <>[](pc = "done")

\* main has run on the vector of the source and returned 0.
C10_Witness ==
    /\ pc = "done" /\ status = <<0>> /\ steps = SixSteps
    /\ out[1] = <<"Found low HP player: ", "Bob">>
    /\ out[2] = <<"Low HP count: ", 2>>
    /\ out[3] = <<"At least one player is dead">>
    /\ players = <<Literal[1], Literal[4], Literal[2]>>

\* How many times player p occurs in v.
Occurrences(v, p) == Cardinality({i \in 1..Len(v) : v[i] = p})

\* w holds exactly the players of v: none added, dropped or duplicated.
IsPermutation(v, w) ==
    /\ Len(w) = Len(v)
    /\ \A i \in 1..Len(v) : Occurrences(w, v[i]) = Occurrences(v, v[i])

\* Each player's hp is greater than or equal to that of the next.
Descending(v) == \A i \in 1..(Len(v) - 1) : v[i].hp >= v[i + 1].hp

\* C11: the sort step orders the players by descending HP: after it every
\* player's hp is greater than or equal to the next one's, and the vector
\* holds exactly the players it held before (a permutation).
C11_SortDescendingPermutation ==
    [][StepSort => (Descending(players') /\ IsPermutation(players, players'))]_vars

\* The vector of the source has been sorted: Alice, Mallory, Bob, Eve.
C11_Witness ==
    /\ pc = "erase_remove"
    /\ players = <<Literal[1], Literal[4], Literal[2], Literal[3]>>

\* The positions of v whose player has hp > 0, and the k-th of them.
AlivePositions(v) == {i \in 1..Len(v) : v[i].hp > 0}
NthAlive(v, k) ==
    CHOOSE i \in AlivePositions(v) :
        Cardinality({j \in AlivePositions(v) : j < i}) = k - 1

\* C12: the erase-remove step removes exactly the dead players: afterwards no
\* player with hp <= 0 remains, every player with hp > 0 is still present
\* exactly once, and the survivors keep their relative order, the descending
\* HP order of the sort.
C12_EraseRemovesExactlyDead ==
    [][StepEraseRemove =>
        /\ \A i \in 1..Len(players') : players'[i].hp > 0
        /\ Len(players') = Cardinality(AlivePositions(players))
        /\ \A k \in 1..Len(players') : players'[k] = players[NthAlive(players, k)]
        /\ \A i \in AlivePositions(players) :
               Occurrences(players', players[i]) = 1
        /\ Descending(players')]_vars

\* Eve was removed from the sorted vector of the source; the others remain.
C12_Witness ==
    /\ pc = "return"
    /\ out[3] = <<"At least one player is dead">>
    /\ players = <<Literal[1], Literal[4], Literal[2]>>

\* How many of the two messages of steps 3 and 4 are in the output o.
Verdicts(o) ==
    Cardinality({i \in 1..Len(o) :
        o[i] \in {<<"At least one player is dead">>, <<"All players are alive">>}})

\* C13: for any contents of the vector exactly one of "At least one player is
\* dead" and "All players are alive" is printed: anyDead (some player has
\* hp <= 0) and allAlive (every player has hp > 0) are negations of each
\* other, and neither check modifies the vector.
C13_ExactlyOneVerdict ==
    [][/\ StepAnyOf =>
            /\ players' = players
            /\ anyDead' = (\E i \in 1..Len(players) : players[i].hp <= 0)
       /\ StepAllOf =>
            /\ players' = players
            /\ allAlive' = (\A i \in 1..Len(players) : players[i].hp > 0)
            /\ allAlive' = ~anyDead
            /\ Verdicts(out') = 1]_vars

\* Both checks ran on the vector of the source: Eve is dead, so only the
\* first message was printed.
C13_Witness ==
    /\ pc = "sort" /\ players = Literal
    /\ anyDead /\ ~allAlive
    /\ Verdicts(out) = 1 /\ out[3] = <<"At least one player is dead">>

=============================================================================
